---- MODULE Spec2Model ----
(***************************************************************************)
(* satlink-planner: the schedule optimizer (scheduling/optimizer.py), the  *)
(* pass finder (services/orbit.py) and the endpoint loops that drive it    *)
(* (api/v1/endpoints/passes.py, schedule.py, export.py).                   *)
(*                                                                         *)
(* Five specifications share the module:                                   *)
(*   SpecOpt  one call of optimize_schedule on a bounded candidate list;   *)
(*   Spec     one request to a pass-collecting endpoint over a bounded     *)
(*            elevation profile;                                           *)
(*   SpecMask one call of is_visible_with_mask (passes/horizon.py);        *)
(*   SpecHorizon  a sequence of mask compute and mask save requests        *)
(*            (api/v1/endpoints/horizon.py);                               *)
(*   SpecSampled  one call of compute_passes (backend/passes.py).          *)
(***************************************************************************)
EXTENDS Integers, Sequences, FiniteSets, TLC

VARIABLES
    \* ---- optimize_schedule -------------------------------------------
    candidates,        \* Sequence[PassCandidate], the caller's list
    max_concurrent,    \* the capacity argument
    opt_pc,            \* "idle" | "call" | "returned" | "raised"
    solver_status,     \* what solver.Solve(model) reported
    selected_indices,  \* ScheduleResult.selected_indices (0-based, ascending)
    objective_bits,    \* ScheduleResult.objective_bits
    \* ---- the world a request runs in ----------------------------------
    elev,              \* satellite id -> elevation profile (the propagator)
    mask_db,           \* the HorizonMask table: id -> elevations_deg
    \* ---- one request to get_passes, export_ics or create_schedule -----
    req,               \* the request's parameters
    pc,                \* "idle" | "request" | "loop" | "optimize" | "done"
    current_time,      \* the search cursor (search_start in create_schedule)
    passes,            \* the passes collected so far
    mask_elevs,        \* get_passes: the mask in use, <<>> for None
    sat_pos,           \* create_schedule: position in sats of the for loop
    found,             \* create_schedule: candidates found for this satellite
    finder,            \* locals of the latest find_next_pass call
    response,          \* HTTP status of the response, 0 while running
    \* ---- is_visible_with_mask ----------------------------------------
    elevation_deg,     \* the elevation argument, degrees
    azimuth_deg,       \* the azimuth argument, tenths of a degree
    mask,              \* StaticMask.elevations_deg, <<>> for None
    vis_pc,            \* "idle" | "call" | "returned"
    visible,           \* the value returned
    \* ---- the horizon mask endpoints -----------------------------------
    hm_table,          \* the HorizonMask rows: elevations_deg of id 1, 2, ...
    hm_req,            \* the latest compute or save request
    hm_status,         \* HTTP status of its response, 0 before any request
    hm_count,          \* requests handled so far
    \* ---- compute_passes (backend/passes.py) ---------------------------
    start,             \* the first sample time
    step,              \* timedelta(seconds=req.step_seconds)
    elevs,             \* the elevation at each sample, PropFail for an SGP4 error
    mask_deg,          \* req.mask_deg
    samp_pc,           \* "idle" | "call" | "returned" | "raised"
    samp_passes        \* the list of PassSummary returned

optVars == <<candidates, max_concurrent, opt_pc, solver_status,
             selected_indices, objective_bits>>

reqVars == <<elev, mask_db, req, pc, current_time, passes, mask_elevs,
             sat_pos, found, finder, response>>

visVars == <<elevation_deg, azimuth_deg, mask, vis_pc, visible>>

hmVars == <<hm_table, hm_req, hm_status, hm_count>>

sampVars == <<start, step, elevs, mask_deg, samp_pc, samp_passes>>

vars == <<optVars, reqVars, visVars, hmVars, sampVars>>

-----------------------------------------------------------------------------
(* Bounds of the optimizer inputs.                                         *)

MaxCands == 3          \* longest candidate list
MaxT == 2              \* candidate start/end are whole seconds in 0..MaxT s
MaxCap == 2            \* largest max_concurrent

\* weight is a float; it is carried as a numerator over WeightDen so that
\* areas with a fractional part exist.
WeightDen == 2
WeightNums == {2, 3}   \* weight 1.0 and 1.5
Bitrates == {1}

-----------------------------------------------------------------------------
(* Time.  A datetime is a number of ticks of 1/128 s since the request's    *)
(* "now"; a timedelta is a number of ticks.  Every bracket the bisection   *)
(* halves (1800 s and 7200 s, ten times) stays a whole number of ticks.    *)

TicksPerSec == 128
Sec(n) == n * TicksPerSec

-----------------------------------------------------------------------------
(* PassCandidate and its properties.                                       *)

Instants == { Sec(k) : k \in 0..MaxT }

PassCandidate ==
    { c \in [sat_id : {1}, start : Instants, end : Instants, min_el_deg : {15},
              bitrate_bps : Bitrates, weight : WeightNums] :
        c.start < c.end }

\* The worked example of the design: A = [0, 10) value 5, B = [5, 15) value
\* 8, C = [10, 20) value 5.  Ten units of its time axis are one second, so
\* duration_s is 1 for each candidate, and with weight 1.0 the value
\* duration_s * bitrate_bps * weight is the bitrate.
ExampleTime(n) == (n * TicksPerSec) \div 10

ExampleABC ==
    << [sat_id |-> 1, start |-> ExampleTime(0), end |-> ExampleTime(10),
        min_el_deg |-> 15, bitrate_bps |-> 5, weight |-> WeightDen],
       [sat_id |-> 1, start |-> ExampleTime(5), end |-> ExampleTime(15),
        min_el_deg |-> 15, bitrate_bps |-> 8, weight |-> WeightDen],
       [sat_id |-> 1, start |-> ExampleTime(10), end |-> ExampleTime(20),
        min_el_deg |-> 15, bitrate_bps |-> 5, weight |-> WeightDen] >>

\* the lists optimize_schedule is called with
CandidateLists ==
    UNION { [1..n -> PassCandidate] : n \in 0..MaxCands } \cup {ExampleABC}

\* max_concurrent is an int no caller and no request model validates
Capacities == (-1)..MaxCap

\* int(x) of Python: truncation toward zero of num/den (den > 0).
IntTrunc(num, den) == IF num >= 0 THEN num \div den ELSE -((-num) \div den)

\* duration_s = int((end - start).total_seconds())
duration_s(c) == IntTrunc(c.end - c.start, TicksPerSec)

\* area = duration_s * bitrate_bps * weight, as the numerator over WeightDen.
area(c) == duration_s(c) * c.bitrate_bps * c.weight

\* int(c.area): the coefficient the objective gives the candidate.
ObjCoef(c) == IntTrunc(area(c), WeightDen)

-----------------------------------------------------------------------------
(* The constraint model optimize_schedule builds.  A selection is the set  *)
(* of 0-based indices i with x[i] true; a constraint is sum(x[i] : i in    *)
(* vars) <= bound.                                                         *)

RECURSIVE SumOver(_, _)
SumOver(S, f) ==
    IF S = {} THEN 0
    ELSE LET i == CHOOSE j \in S : TRUE IN f[i] + SumOver(S \ {i}, f)

Indices(cands) == 0 .. (Len(cands) - 1)

\* two candidates that only touch at an instant taken as overlapping
Overlap_touching(a, b) == ~(a.end < b.start \/ b.end < a.start)

\* not (a.end <= b.start or b.end <= a.start)
Overlap(a, b) == ~(a.end <= b.start \/ b.end <= a.start)

\* the pairs of neighbours in the list only: j = i + 1
PairwiseConstraints_adjacent(cands) ==
    { [vars |-> {p[1], p[2]}, bound |-> 1] :
        p \in { q \in Indices(cands) \X Indices(cands) :
                  q[2] = q[1] + 1 /\ Overlap(cands[q[1] + 1], cands[q[2] + 1]) } }

PairwiseConstraints(cands) ==
    { [vars |-> {p[1], p[2]}, bound |-> 1] :
        p \in { q \in Indices(cands) \X Indices(cands) :
                  q[1] < q[2] /\ Overlap(cands[q[1] + 1], cands[q[2] + 1]) } }

\* the end instants only
timepoints_ends(cands) ==
    { cands[i + 1].end : i \in Indices(cands) }

timepoints(cands) ==
    { cands[i + 1].start : i \in Indices(cands) } \cup
    { cands[i + 1].end : i \in Indices(cands) }

\* the active set with the start instant left out: c.start < t < c.end
active_open_start(cands, t) ==
    { i \in Indices(cands) : cands[i + 1].start < t /\ t < cands[i + 1].end }

\* the active set with the end instant counted in: c.start <= t <= c.end
active_closed_end(cands, t) ==
    { i \in Indices(cands) : cands[i + 1].start <= t /\ t <= cands[i + 1].end }

\* [i for i, c in enumerate(candidates) if c.start <= t < c.end]
active(cands, t) ==
    { i \in Indices(cands) : cands[i + 1].start <= t /\ t < cands[i + 1].end }

BreakpointConstraints(cands, cap) ==
    { [vars |-> active(cands, t), bound |-> cap] :
        t \in { u \in timepoints(cands) : active(cands, u) # {} } }

Constraints(cands, cap) ==
    IF cap = 1 THEN PairwiseConstraints(cands)
    ELSE BreakpointConstraints(cands, cap)

Satisfies(x, cons) ==
    \A c \in cons : Cardinality(x \cap c.vars) <= c.bound

\* sum(int(c.area) * x[i])
ObjectiveOf(cands, x) ==
    SumOver(x, [i \in x |-> ObjCoef(cands[i + 1])])

FeasibleSelections(cands, cap) ==
    LET cons == Constraints(cands, cap)
    IN  { x \in SUBSET Indices(cands) : Satisfies(x, cons) }

OptimalSelections(cands, cap) ==
    LET feasible == FeasibleSelections(cands, cap)
        value == [x \in feasible |-> ObjectiveOf(cands, x)]
    IN  { x \in feasible : \A y \in feasible : value[y] <= value[x] }

\* the ascending list [i for i in range(n) if ...]
RECURSIVE AscendingList(_)
AscendingList(S) ==
    IF S = {} THEN <<>>
    ELSE LET m == CHOOSE i \in S : \A j \in S : i <= j
         IN <<m>> \o AscendingList(S \ {m})

Range(s) == { s[k] : k \in 1..Len(s) }

-----------------------------------------------------------------------------
(* The propagator seen from one observer: get_az_el_range.  The elevation  *)
(* of a satellite is constant on each coarse step of the profile and has   *)
(* one value outside the profile; PropFail marks the times at which SGP4   *)
(* reports an error and get_az_el_range raises.  The azimuth is carried in *)
(* tenths of a degree.                                                     *)

NSlots == 3                 \* coarse steps the profile describes
NSats == 2                  \* satellites a schedule request may name
PropFail == -1000
ElevLevels == {5, 15}       \* degrees
Azimuths == {900, 3596}     \* 90.0 and 359.6 degrees

time_step == Sec(60)        \* time_step=60.0 of every caller
max_iterations == 1000
CrossingIterations == 10    \* for _ in range(10)
LookBack == Sec(1800)       \* timedelta(minutes=30)
LookAhead == Sec(7200)      \* timedelta(hours=2)
Precision == Sec(1)         \* total_seconds() < 1.0
GuardInterval == Sec(300)   \* timedelta(minutes=5)

\* A satellite whose propagation fails outside the profile as well is one
\* SGP4 cannot propagate at all (a decayed orbit): every sample fails.
Profiles ==
    { p \in [slots : [1..NSlots -> ElevLevels \cup {PropFail}],
              outside : ElevLevels \cup {PropFail},
              az : Azimuths] :
        p.outside = PropFail => \A k \in 1..NSlots : p.slots[k] = PropFail }

Sample(p, t) ==
    LET k == t \div time_step
    IN  IF k >= 0 /\ k < Len(p.slots) THEN p.slots[k + 1] ELSE p.outside

\* get_az_el_range raises (SGP4 error code # 0)
Raises(p, t) == Sample(p, t) = PropFail

\* the elevation get_az_el_range returns when it does not raise
ElevationAt(p, t) == Sample(p, t)

-----------------------------------------------------------------------------
(* OrbitPredictor._find_crossing: at most CrossingIterations halvings of   *)
(* [t1, t2].  The result records the bracket the loop ended with.          *)

RECURSIVE find_crossing_loop(_, _, _, _, _, _)
find_crossing_loop(p, left, right, min_elevation, rising, n) ==
    IF n = 0
    THEN [found |-> FALSE, t |-> 0, left |-> left, right |-> right]    \* return None
    ELSE IF right - left < Precision
    THEN [found |-> TRUE, t |-> left + (right - left) \div 2,
          left |-> left, right |-> right]
    ELSE LET mid == left + (right - left) \div 2
         IN  IF Raises(p, mid)
             THEN [found |-> FALSE, t |-> 0, left |-> left, right |-> right]
             ELSE IF \/ rising /\ ElevationAt(p, mid) >= min_elevation
                     \/ ~rising /\ ElevationAt(p, mid) < min_elevation
                  THEN find_crossing_loop(p, left, mid, min_elevation, rising, n - 1)
                  ELSE find_crossing_loop(p, mid, right, min_elevation, rising, n - 1)

\* A search that reports the left end of its bracket as the crossing.
_find_crossing_left(p, t1, t2, min_elevation, rising) ==
    [found |-> TRUE, t |-> t1, left |-> t1, right |-> t2]

_find_crossing(p, t1, t2, min_elevation, rising) ==
    find_crossing_loop(p, t1, t2, min_elevation, rising, CrossingIterations)

\* OrbitPredictor._find_max_elevation: the first best of ten samples
\* t1 + (t2 - t1) * (i / 9.0), i = 0..9; None when every sample raises.
RECURSIVE find_max_elevation_loop(_, _, _, _, _)
find_max_elevation_loop(p, t1, t2, i, best) ==
    IF i > 9 THEN best
    ELSE LET t == t1 + (2 * (t2 - t1) * i + 9) \div 18
         IN  IF ~Raises(p, t) /\ ElevationAt(p, t) > best.elevation
             THEN find_max_elevation_loop(p, t1, t2, i + 1,
                      [found |-> TRUE, t |-> t, elevation |-> ElevationAt(p, t)])
             ELSE find_max_elevation_loop(p, t1, t2, i + 1, best)

_find_max_elevation(p, t1, t2) ==
    find_max_elevation_loop(p, t1, t2, 0, [found |-> FALSE, t |-> 0, elevation |-> -90])

NoPass ==
    [kind |-> "none", rise_time |-> 0, set_time |-> 0, max_elevation_time |-> 0,
     max_elevation |-> 0, duration_s |-> 0]

\* OrbitPredictor._refine_pass.  max_el_time is a time _find_max_elevation
\* sampled without error, so the get_az_el_range of line 240 cannot raise.
_refine_pass(p, start_time, min_elevation) ==
    LET rise == _find_crossing(p, start_time - LookBack, start_time, min_elevation, TRUE)
        set  == _find_crossing(p, start_time, start_time + LookAhead, min_elevation, FALSE)
    IN  IF ~rise.found \/ ~set.found THEN NoPass
        ELSE LET max_el == _find_max_elevation(p, rise.t, set.t)
             IN  IF ~max_el.found THEN NoPass
                 ELSE [kind |-> "pass", rise_time |-> rise.t, set_time |-> set.t,
                       max_elevation_time |-> max_el.t,
                       max_elevation |-> max_el.elevation,
                       duration_s |-> set.t - rise.t]

\* The coarse scan of find_next_pass: the first sample at or above
\* min_elevation, a failed sample counting as -90 degrees.
RECURSIVE coarse_scan(_, _, _, _, _)
coarse_scan(p, t, end_time, min_elevation, iteration) ==
    IF t <= end_time /\ iteration < max_iterations
    THEN LET el == IF Raises(p, t) THEN -90 ELSE ElevationAt(p, t)
         IN  IF el >= min_elevation
             THEN [hit |-> TRUE, t |-> t]
             ELSE coarse_scan(p, t + time_step, end_time, min_elevation, iteration + 1)
    ELSE [hit |-> FALSE, t |-> t]

\* OrbitPredictor.find_next_pass
find_next_pass(p, start_time, end_time, min_elevation) ==
    LET scan == coarse_scan(p, start_time, end_time, min_elevation, 0)
    IN  IF scan.hit THEN _refine_pass(p, scan.t, min_elevation) ELSE NoPass

-----------------------------------------------------------------------------
(* The locals of one find_next_pass call, kept for the properties: the     *)
(* outcome of the coarse scan, of both _find_crossing calls (computed only *)
(* when the scan found a sample) and the value returned.                   *)

NoCrossing == [found |-> FALSE, t |-> 0, left |-> 0, right |-> 0]

FinderCall(p, start_time, end_time, min_elevation) ==
    LET scan == coarse_scan(p, start_time, end_time, min_elevation, 0)
    IN  [called |-> TRUE, profile |-> p, start_time |-> start_time,
         end_time |-> end_time, min_elevation |-> min_elevation, scan |-> scan,
         rise |-> IF scan.hit
                  THEN _find_crossing(p, scan.t - LookBack, scan.t, min_elevation, TRUE)
                  ELSE NoCrossing,
         set |-> IF scan.hit
                 THEN _find_crossing(p, scan.t, scan.t + LookAhead, min_elevation, FALSE)
                 ELSE NoCrossing,
         result |-> find_next_pass(p, start_time, end_time, min_elevation)]

NoFinderCall ==
    [called |-> FALSE, profile |-> <<>>, start_time |-> 0, end_time |-> 0,
     min_elevation |-> 0, scan |-> [hit |-> FALSE, t |-> 0],
     rise |-> NoCrossing, set |-> NoCrossing, result |-> NoPass]

-----------------------------------------------------------------------------
(* Horizon masks and requests.                                             *)

MaxMaskId == 1              \* mask ids are 1..MaxMaskId
MaxPasses == 2              \* largest max_passes of a request
MaskValues == {10, 20}      \* degrees
MaxFound == 5               \* found < 5
PlaceholderBitrate == 120000

\* elevations_deg of a stored mask: 360 values, entry k + 1 for azimuth k.
Masks ==
    { [k \in 1..360 |-> IF k = 91 THEN v[1] ELSE v[2]] : v \in MaskValues \X MaskValues }

MaskStores == UNION { [ids -> Masks] : ids \in SUBSET (1..MaxMaskId) }

\* the end of the search horizon: start_time + 7 days, now + 1 day, now + days.
\* It lies one coarse step past the profile the satellite's elevation has.
HorizonEnd == (NSlots + 1) * time_step

Availabilities == { <<>>, <<[start |-> 0, end |-> 2 * time_step]>> }

\* mask_id 0 is None.  Every request names satellites whose TLE is stored.
Requests ==
    [endpoint : {"passes"}, norad_ids : {{1}}, min_elevation : {10},
     mask_id : 0..MaxMaskId, start_time : {0},
     end_time : {0, time_step, HorizonEnd}, max_passes : 1..MaxPasses,
     availability : {<<>>}, max_concurrent : {1}]
    \cup
    [endpoint : {"ics"}, norad_ids : {{1}}, min_elevation : {10},
     mask_id : {0}, start_time : {0}, end_time : {HorizonEnd}, max_passes : {1},
     availability : {<<>>}, max_concurrent : {1}]
    \cup
    [endpoint : {"schedule"}, norad_ids : SUBSET (1..NSats), min_elevation : {10},
     mask_id : {0}, start_time : {0}, end_time : {HorizonEnd}, max_passes : {1},
     availability : Availabilities, max_concurrent : Capacities]

\* The satellites of a schedule request: the elevation is free at the first
\* coarse step and has one value on the later steps of the profile.
ScheduleProfiles ==
    { p \in Profiles :
        /\ p.az = 900
        /\ \A k \in 2..NSlots : p.slots[k] = p.slots[2] }

\* int(x) in the place of int(round(x)): the fraction dropped
RoundTowardZero(num, den) == IF num >= 0 THEN num \div den ELSE -((-num) \div den)

\* round(x) of Python for x = num/den: to the nearest integer, ties to even
RoundHalfEven(num, den) ==
    LET q == num \div den
        r == num % den
    IN  IF 2 * r < den THEN q
        ELSE IF 2 * r > den THEN q + 1
        ELSE IF q % 2 = 0 THEN q ELSE q + 1

\* int(round(az_tca)) % 360
az_idx(az) == RoundHalfEven(az, 10) % 360

\* sats of create_schedule, in the order of the satellite table
sats == AscendingList(req.norad_ids)

-----------------------------------------------------------------------------
(* get_passes                                                              *)

\* lines 85-114: the time range is validated and the mask looked up
get_passes_begin ==
    /\ pc = "request"
    /\ req.endpoint = "passes"
    /\ IF req.start_time >= req.end_time
       THEN /\ response' = 400
            /\ pc' = "done"
            /\ UNCHANGED <<current_time, passes, mask_elevs>>
       ELSE /\ passes' = <<>>
            /\ current_time' = req.start_time
            /\ mask_elevs' = IF /\ req.mask_id # 0
                                /\ req.mask_id \in DOMAIN mask_db
                                /\ Len(mask_db[req.mask_id]) = 360
                             THEN mask_db[req.mask_id]
                             ELSE <<>>
            /\ pc' = "loop"
            /\ UNCHANGED response
    /\ UNCHANGED <<elev, mask_db, req, sat_pos, found, finder, optVars, visVars, hmVars, sampVars>>

\* lines 116-165: one turn of the while loop; leaving it builds the response
get_passes_iter ==
    /\ pc = "loop"
    /\ req.endpoint = "passes"
    /\ IF Len(passes) < req.max_passes /\ current_time < req.end_time
       THEN LET p == elev[1]
                f == FinderCall(p, current_time, req.end_time, req.min_elevation)
                pass_data == f.result
            IN  /\ finder' = f
                /\ IF pass_data.kind = "none"
                   THEN /\ pc' = "done"
                        /\ response' = 200
                        /\ UNCHANGED <<passes, current_time>>
                   ELSE /\ current_time' = pass_data.set_time + GuardInterval
                        /\ passes' =
                             IF /\ mask_elevs # <<>>
                                /\ ~Raises(p, pass_data.max_elevation_time)
                                /\ ElevationAt(p, pass_data.max_elevation_time)
                                       < mask_elevs[az_idx(p.az) + 1]
                             THEN passes
                             ELSE Append(passes, pass_data)
                        /\ UNCHANGED <<pc, response>>
       ELSE /\ pc' = "done"
            /\ response' = 200
            /\ UNCHANGED <<passes, current_time, finder>>
    /\ UNCHANGED <<elev, mask_db, req, mask_elevs, sat_pos, found, optVars, visVars, hmVars, sampVars>>

-----------------------------------------------------------------------------
(* export_ics                                                              *)

\* lines 50-56
export_ics_begin ==
    /\ pc = "request"
    /\ req.endpoint = "ics"
    /\ passes' = <<>>
    /\ current_time' = req.start_time
    /\ pc' = "loop"
    /\ UNCHANGED <<elev, mask_db, req, mask_elevs, sat_pos, found, finder,
                   response, optVars, visVars, hmVars, sampVars>>

\* lines 58-119: one turn of the while loop; leaving it builds the calendar
export_ics_iter ==
    /\ pc = "loop"
    /\ req.endpoint = "ics"
    /\ IF current_time < req.end_time
       THEN LET f == FinderCall(elev[1], current_time, req.end_time, req.min_elevation)
                pass_data == f.result
            IN  /\ finder' = f
                /\ IF pass_data.kind = "none"
                   THEN /\ pc' = "done"
                        /\ response' = 200
                        /\ UNCHANGED <<passes, current_time>>
                   ELSE /\ passes' = Append(passes, pass_data)
                        /\ current_time' = pass_data.set_time + GuardInterval
                        /\ UNCHANGED <<pc, response>>
       ELSE /\ pc' = "done"
            /\ response' = 200
            /\ UNCHANGED <<passes, current_time, finder>>
    /\ UNCHANGED <<elev, mask_db, req, mask_elevs, sat_pos, found, optVars, visVars, hmVars, sampVars>>

-----------------------------------------------------------------------------
(* create_schedule                                                         *)

\* lines 48-65: the satellites are loaded; the first one's search starts
create_schedule_begin ==
    /\ pc = "request"
    /\ req.endpoint = "schedule"
    /\ IF req.norad_ids = {}
       THEN /\ response' = 404
            /\ pc' = "done"
            /\ UNCHANGED <<candidates, sat_pos, current_time, found>>
       ELSE /\ candidates' = <<>>
            /\ sat_pos' = 1
            /\ current_time' = req.start_time
            /\ found' = 0
            /\ pc' = "loop"
            /\ UNCHANGED response
    /\ UNCHANGED <<elev, mask_db, req, passes, mask_elevs, finder,
                   max_concurrent, opt_pc, solver_status, selected_indices,
                   objective_bits, visVars, hmVars, sampVars>>

\* lines 57-100: one turn of the while loop of the satellite at sat_pos.
\* Leaving the loop moves on to the next satellite; after the last one an
\* empty candidate list is answered at once and any other list is handed to
\* optimize_schedule.
create_schedule_iter ==
    /\ pc = "loop"
    /\ req.endpoint = "schedule"
    /\ LET sat == sats[sat_pos]
           f == FinderCall(elev[sat], current_time, req.end_time, req.min_elevation)
           p == f.result
           looping == current_time < req.end_time /\ found < MaxFound
           ok == \/ req.availability = <<>>
                 \/ \E k \in 1..Len(req.availability) :
                       /\ req.availability[k].start <= p.rise_time
                       /\ p.set_time <= req.availability[k].end
       IN  IF looping /\ p.kind = "pass"
           THEN /\ finder' = f
                /\ candidates' =
                     IF ok
                     THEN Append(candidates,
                                 [sat_id |-> sat, start |-> p.rise_time,
                                  end |-> p.set_time, min_el_deg |-> p.max_elevation,
                                  bitrate_bps |-> PlaceholderBitrate,
                                  weight |-> WeightDen])
                     ELSE candidates
                /\ found' = IF ok THEN found + 1 ELSE found
                /\ current_time' = p.set_time
                /\ UNCHANGED <<sat_pos, pc, response, opt_pc, max_concurrent>>
           ELSE /\ finder' = IF looping THEN f ELSE finder
                /\ IF sat_pos < Len(sats)
                   THEN /\ sat_pos' = sat_pos + 1
                        /\ current_time' = req.start_time
                        /\ found' = 0
                        /\ UNCHANGED <<pc, response, opt_pc, max_concurrent>>
                   ELSE /\ IF candidates = <<>>
                           THEN /\ pc' = "done"
                                /\ response' = 200
                                /\ UNCHANGED <<opt_pc, max_concurrent>>
                           ELSE /\ pc' = "optimize"
                                /\ opt_pc' = "call"
                                /\ max_concurrent' = req.max_concurrent
                                /\ UNCHANGED response
                        /\ UNCHANGED <<sat_pos, current_time, found>>
                /\ UNCHANGED candidates
    /\ UNCHANGED <<elev, mask_db, req, passes, mask_elevs, solver_status,
                   selected_indices, objective_bits, visVars, hmVars, sampVars>>

-----------------------------------------------------------------------------
(* optimize_schedule.  solver.Solve runs under max_time_in_seconds = 8.0:  *)
(* it reports OPTIMAL with a maximal feasible assignment, FEASIBLE with    *)
(* some feasible assignment when the limit stops the search, UNKNOWN when  *)
(* the limit stops it before any assignment is found, or INFEASIBLE when   *)
(* no assignment satisfies the constraints; with no assignment             *)
(* solver.BooleanValue raises.                                             *)

\* solver.parameters.max_time_in_seconds = 8.0
max_time_in_seconds == 8

SolverStatuses == {"OPTIMAL", "FEASIBLE", "UNKNOWN", "INFEASIBLE"}

\* the ScheduleResult optimize_schedule has returned
ScheduleResult ==
    [selected_indices |-> selected_indices, objective_bits |-> objective_bits]

IdleVisibility ==
    /\ elevation_deg = 0
    /\ azimuth_deg = 0
    /\ mask = <<>>
    /\ vis_pc = "idle"
    /\ visible = FALSE

IdleHorizon ==
    /\ hm_table = <<>>
    /\ hm_req = [kind |-> "none"]
    /\ hm_status = 0
    /\ hm_count = 0

IdleSampled ==
    /\ start = 0
    /\ step = 0
    /\ elevs = <<>>
    /\ mask_deg = 0
    /\ samp_pc = "idle"
    /\ samp_passes = <<>>

IdleRequest ==
    /\ elev = <<>>
    /\ mask_db = <<>>
    /\ req = [endpoint |-> "none"]
    /\ pc = "idle"
    /\ current_time = 0
    /\ passes = <<>>
    /\ mask_elevs = <<>>
    /\ sat_pos = 0
    /\ found = 0
    /\ finder = NoFinderCall
    /\ response = 0

InitOpt ==
    /\ candidates \in CandidateLists
    /\ max_concurrent \in Capacities
    /\ opt_pc = "call"
    /\ solver_status = "NOT_SOLVED"
    /\ selected_indices = <<>>
    /\ objective_bits = 0
    /\ IdleRequest
    /\ IdleVisibility
    /\ IdleHorizon
    /\ IdleSampled

optimize_schedule ==
    /\ opt_pc = "call"
    /\ \E st \in SolverStatuses :
        /\ solver_status' = st
        /\ \/ /\ st = "OPTIMAL"
              /\ \E x \in OptimalSelections(candidates, max_concurrent) :
                    /\ selected_indices' = AscendingList(x)
                    /\ objective_bits' = ObjectiveOf(candidates, x)
              /\ opt_pc' = "returned"
           \/ /\ st = "FEASIBLE"
              /\ \E x \in FeasibleSelections(candidates, max_concurrent) :
                    /\ selected_indices' = AscendingList(x)
                    /\ objective_bits' = ObjectiveOf(candidates, x)
              /\ opt_pc' = "returned"
           \/ /\ st = "UNKNOWN"
              /\ opt_pc' = "raised"
              /\ UNCHANGED <<selected_indices, objective_bits>>
           \/ /\ st = "INFEASIBLE"
              /\ FeasibleSelections(candidates, max_concurrent) = {}
              /\ opt_pc' = "raised"
              /\ UNCHANGED <<selected_indices, objective_bits>>
    /\ UNCHANGED <<candidates, max_concurrent, reqVars, visVars, hmVars, sampVars>>

NextOpt == optimize_schedule

SpecOpt == InitOpt /\ [][NextOpt]_vars

-----------------------------------------------------------------------------
(* One request against a stored satellite table and mask table.            *)

Init ==
    /\ req \in Requests
    /\ elev \in [req.norad_ids ->
                  CASE req.endpoint = "passes" -> Profiles
                    [] req.endpoint = "ics" -> { p \in Profiles : p.az = 900 }
                    [] req.endpoint = "schedule" -> ScheduleProfiles]
    /\ mask_db \in (IF req.mask_id # 0 THEN MaskStores ELSE {<<>>})
    /\ pc = "request"
    /\ current_time = 0
    /\ passes = <<>>
    /\ mask_elevs = <<>>
    /\ sat_pos = 0
    /\ found = 0
    /\ finder = NoFinderCall
    /\ response = 0
    /\ candidates = <<>>
    /\ max_concurrent = 1
    /\ opt_pc = "idle"
    /\ solver_status = "NOT_SOLVED"
    /\ selected_indices = <<>>
    /\ objective_bits = 0
    /\ IdleVisibility
    /\ IdleHorizon
    /\ IdleSampled

Next ==
    \/ get_passes_begin
    \/ get_passes_iter
    \/ export_ics_begin
    \/ export_ics_iter
    \/ create_schedule_begin
    \/ create_schedule_iter

Spec == Init /\ [][Next]_vars

-----------------------------------------------------------------------------
(* is_visible_with_mask and StaticMask.elevation_at (passes/horizon.py).   *)
(* Azimuths are carried in tenths of a degree, elevations and mask entries *)
(* in degrees.                                                             *)

VisAzimuths ==
    {-3605, -15, -5, -4, 0, 5, 15, 25, 1230, 3594, 3595, 3596, 3600, 7204}
VisElevations == {-1, 0, 1, 2, 5, 10, 15, 33, 88, 89}

\* elevations_deg: the mask of the test (10.0 at every azimuth) and one
\* whose entry tells the index, entry k + 1 for angles_deg k
StaticMasks ==
    { [k \in 1..360 |-> 10], [k \in 1..360 |-> (k - 1) % 90] }

\* i = int(round(azimuth_deg)) % 360; float(self.elevations_deg[i])
elevation_at(m, az) == m[(RoundHalfEven(az, 10) % 360) + 1]

IdleOptimizer ==
    /\ candidates = <<>>
    /\ max_concurrent = 1
    /\ opt_pc = "idle"
    /\ solver_status = "NOT_SOLVED"
    /\ selected_indices = <<>>
    /\ objective_bits = 0

InitMask ==
    /\ elevation_deg \in VisElevations
    /\ azimuth_deg \in VisAzimuths
    /\ mask \in StaticMasks \cup {<<>>}
    /\ vis_pc = "call"
    /\ visible = FALSE
    /\ IdleOptimizer
    /\ IdleRequest
    /\ IdleHorizon
    /\ IdleSampled

is_visible_with_mask ==
    /\ vis_pc = "call"
    /\ visible' = IF mask = <<>>
                  THEN elevation_deg >= 0
                  ELSE elevation_deg >= elevation_at(mask, azimuth_deg)
    /\ vis_pc' = "returned"
    /\ UNCHANGED <<elevation_deg, azimuth_deg, mask, optVars, reqVars,
                   hmVars, sampVars>>

NextMask == is_visible_with_mask

SpecMask == InitMask /\ [][NextMask]_vars

-----------------------------------------------------------------------------
(* C1: for every max_concurrent >= 1, in the selection optimize_schedule   *)
(* returns, at no instant t are                                            *)
(* more than max_concurrent selected candidates active, where a candidate  *)
(* is active at t when start <= t < end.  The set of active candidates     *)
(* changes at the candidates' start and end times only, so those times     *)
(* and Instants stand for every instant.                                   *)
C1_CapacityRespected ==
    (opt_pc = "returned" /\ max_concurrent >= 1) =>
        \A t \in Instants \cup timepoints(candidates) :
            Cardinality({ i \in Range(selected_indices) :
                            /\ candidates[i + 1].start <= t
                            /\ t < candidates[i + 1].end }) <= max_concurrent

\* three candidates that all cover one instant, capacity 2, two selected
C1_Witness ==
    /\ opt_pc = "returned"
    /\ max_concurrent = 2
    /\ Len(candidates) = 3
    /\ \E t \in Instants : \A k \in 1..3 :
            candidates[k].start <= t /\ t < candidates[k].end
    /\ Len(selected_indices) = 2

(* C2: for every max_concurrent >= 1, when the solver finishes within its  *)
(* time budget (status OPTIMAL),                                           *)
(* the total value of the selected candidates, the sum of duration_s x     *)
(* bitrate_bps x weight, equals the maximum total value over all subsets   *)
(* of candidates that respect the capacity constraint.  Values are         *)
(* compared as numerators over WeightDen.                                  *)
C2_OptimalValue ==
    LET Respects(x) ==
            \A t \in Instants \cup timepoints(candidates) :
                Cardinality({ i \in x : /\ candidates[i + 1].start <= t
                                        /\ t < candidates[i + 1].end }) <= max_concurrent
        Value(x) == SumOver(x, [i \in Indices(candidates) |-> area(candidates[i + 1])])
    IN  (opt_pc = "returned" /\ solver_status = "OPTIMAL" /\ max_concurrent >= 1) =>
            \A y \in SUBSET Indices(candidates) :
                Respects(y) => Value(y) <= Value(Range(selected_indices))

-----------------------------------------------------------------------------
(* Every find_next_pass call ends with "no pass": both _find_crossing      *)
(* calls start from a bracket of 1800 s or 7200 s, and ten halvings leave  *)
(* 1800/1024 s or 7200/1024 s, never less than the 1 s that returns a      *)
(* time.                                                                   *)
FinderReturnsNoPass ==
    finder.called =>
        /\ finder.result.kind = "none"
        /\ ~finder.rise.found
        /\ ~finder.set.found

(* C4: when the coarse scan of find_next_pass finds a sample at or above   *)
(* the threshold and every propagation call succeeds, rise refinement      *)
(* bisects the interval between the previous coarse sample and that sample *)
(* and ends with a bracket of at most 1 second and a rise time inside it.  *)
C4_RiseRefined ==
    ( /\ finder.called
      /\ finder.scan.hit
      /\ \A k \in 1..NSlots : finder.profile.slots[k] # PropFail )
    =>
    ( /\ finder.rise.found
      /\ finder.rise.right - finder.rise.left <= Precision
      /\ finder.rise.left <= finder.rise.t
      /\ finder.rise.t <= finder.rise.right
      /\ finder.scan.t - time_step <= finder.rise.left
      /\ finder.rise.right <= finder.scan.t )

(* C5: when a rise has been found (the coarse scan reached a sample at or  *)
(* above the threshold) but the elevation does not fall below the          *)
(* threshold at any coarse step of the 2-hour set-refinement lookahead,    *)
(* the request does not end as if there were no more passes: an error      *)
(* reaches the caller.                                                     *)
C5_SetFailureSurfaces ==
    ( /\ pc = "done"
      /\ finder.called
      /\ finder.scan.hit
      /\ \A k \in 0..(LookAhead \div time_step) :
            LET t == finder.scan.t + k * time_step
            IN  /\ ~Raises(finder.profile, t)
                /\ ElevationAt(finder.profile, t) >= finder.min_elevation )
    => response \notin {0, 200}

(* C6: whenever get_passes stops collecting with fewer than max_passes     *)
(* passes, no coarse-step sample between the last search cursor and the    *)
(* end of the horizon has elevation at or above the threshold.             *)
C6_StopsOnlyWhenExhausted ==
    ( /\ pc = "done"
      /\ req.endpoint = "passes"
      /\ response = 200
      /\ Len(passes) < req.max_passes )
    =>
    \A k \in 0..(NSlots + 1) :
        LET t == current_time + k * time_step
        IN  t <= req.end_time =>
                \/ Raises(elev[1], t)
                \/ ElevationAt(elev[1], t) < req.min_elevation

(* C9: with a horizon mask active in pass search, a pass is returned if    *)
(* and only if its elevation at culmination is at least the mask value at  *)
(* index round(azimuth at culmination) mod 360: a pass culminating at 15   *)
(* degrees at azimuth 90 is returned when mask[90] = 10 and is not         *)
(* returned when mask[90] = 20.  The pass is the one the profile holds:    *)
(* the satellite is at 15 degrees, above the 10-degree threshold, at a     *)
(* coarse sample of the search window, and no propagation fails.           *)
C9_MaskDecidesPass ==
    ( /\ pc = "done"
      /\ req.endpoint = "passes"
      /\ response = 200
      /\ mask_elevs # <<>>
      /\ elev[1].az = 900
      /\ \A k \in 1..NSlots : elev[1].slots[k] # PropFail
      /\ \E k \in 0..(NSlots + 1) :
            /\ k * time_step <= req.end_time
            /\ ElevationAt(elev[1], k * time_step) = 15 )
    =>
    ( /\ mask_elevs[91] = 10 => passes # <<>>
      /\ mask_elevs[91] = 20 => passes = <<>> )

(* C10: a pass search that names a horizon-mask id for which no mask is    *)
(* stored fails with a not-found error.                                    *)
C10_UnknownMaskNotFound ==
    ( /\ pc = "done"
      /\ req.endpoint = "passes"
      /\ req.start_time < req.end_time
      /\ req.mask_id # 0
      /\ req.mask_id \notin DOMAIN mask_db )
    => response = 404

-----------------------------------------------------------------------------
(* C11: when the coarse scan of a find_next_pass call has taken 5          *)
(* consecutive samples whose propagation failed, the call ends with an     *)
(* error: it neither goes on scanning (to a pass or to the end of the      *)
(* window) nor reports "no pass".  The scan samples start_time + k *       *)
(* time_step for every such time before the one it stopped at.             *)
C11_AbortsAfterFiveFailures ==
    ( /\ finder.called
      /\ \E j \in 0..NSlots :
            \A i \in 0..4 :
                LET t == finder.start_time + (j + i) * time_step
                IN  /\ t <= finder.end_time
                    /\ t < finder.scan.t
                    /\ Raises(finder.profile, t) )
    => finder.result.kind \notin {"none", "pass"}

(* C12: in a schedule request over several satellites, a failure while     *)
(* finding passes for one satellite (its propagation raises at every       *)
(* sample) does not abort the searches for the others: when the request    *)
(* has left the satellite loop, the candidates of every other satellite    *)
(* that is above the threshold at a coarse sample of the window, with no   *)
(* propagation failure of its own, have been collected for scheduling.     *)
C12_OtherSatellitesCollected ==
    ( /\ req.endpoint = "schedule"
      /\ pc \in {"optimize", "done"}
      /\ req.availability = <<>> )
    =>
    \A bad \in req.norad_ids, good \in req.norad_ids :
        ( /\ bad # good
          /\ elev[bad].outside = PropFail
          /\ elev[good].outside # PropFail
          /\ \A k \in 1..NSlots : elev[good].slots[k] # PropFail
          /\ \E k \in 1..NSlots : elev[good].slots[k] >= req.min_elevation )
        => \E c \in 1..Len(candidates) : candidates[c].sat_id = good

-----------------------------------------------------------------------------
(* C13: when the solver reaches its time budget before proving optimality  *)
(* (status FEASIBLE with an assignment, UNKNOWN without one),              *)
(* optimize_schedule returns normally, its selection respects the          *)
(* capacity, and the result carries the status TIMEOUT; when optimality    *)
(* was proven the result carries the status OPTIMAL.                       *)
C13_TimeoutReturnsBest ==
    /\ solver_status \in {"FEASIBLE", "UNKNOWN"} =>
          /\ opt_pc = "returned"
          /\ \A t \in timepoints(candidates) :
                Cardinality({ i \in Range(selected_indices) :
                                /\ candidates[i + 1].start <= t
                                /\ t < candidates[i + 1].end }) <= max_concurrent
          /\ "status" \in DOMAIN ScheduleResult
          /\ ScheduleResult.status = "TIMEOUT"
    /\ solver_status = "OPTIMAL" =>
          /\ opt_pc = "returned"
          /\ "status" \in DOMAIN ScheduleResult
          /\ ScheduleResult.status = "OPTIMAL"

(* C14: optimize_schedule called with an empty candidate list returns a    *)
(* result with no selected candidate, objective 0 and status OPTIMAL.      *)
C14_EmptyIsOptimal ==
    (candidates = <<>> /\ opt_pc = "returned") =>
        /\ ScheduleResult.selected_indices = <<>>
        /\ ScheduleResult.objective_bits = 0
        /\ "status" \in DOMAIN ScheduleResult
        /\ ScheduleResult.status = "OPTIMAL"

(* C15: for every non-empty candidate list and every max_concurrent the    *)
(* request model accepts, the selection with no candidate chosen satisfies *)
(* every constraint optimize_schedule has built.                           *)
C15_EmptySelectionFeasible ==
    (opt_pc \in {"returned", "raised"} /\ candidates # <<>>) =>
        Satisfies({}, Constraints(candidates, max_concurrent))

(* C16: for A = [0, 10) value 5, B = [5, 15) value 8, C = [10, 20) value   *)
(* 5 and max_concurrent = 1, a run of optimize_schedule in which the       *)
(* solver proves optimality selects exactly A and C (indices 0 and 2) with *)
(* objective 10.                                                           *)
C16_ExampleCapacityOne ==
    ( /\ candidates = ExampleABC
      /\ max_concurrent = 1
      /\ opt_pc = "returned"
      /\ solver_status = "OPTIMAL" )
    => (selected_indices = <<0, 2>> /\ objective_bits = 10)

C16_Witness ==
    /\ candidates = ExampleABC
    /\ max_concurrent = 1
    /\ opt_pc = "returned"
    /\ solver_status = "OPTIMAL"
    /\ selected_indices = <<0, 2>>

(* C17: for the same A, B, C and max_concurrent = 2, a run in which the    *)
(* solver proves optimality selects all three candidates with objective    *)
(* 18.                                                                     *)
C17_ExampleCapacityTwo ==
    ( /\ candidates = ExampleABC
      /\ max_concurrent = 2
      /\ opt_pc = "returned"
      /\ solver_status = "OPTIMAL" )
    => (selected_indices = <<0, 1, 2>> /\ objective_bits = 18)

C17_Witness ==
    /\ candidates = ExampleABC
    /\ max_concurrent = 2
    /\ opt_pc = "returned"
    /\ solver_status = "OPTIMAL"
    /\ objective_bits = 18

\* candidates in the order of start, end, weight, bitrate
InOrder(a, b) ==
    \/ a.start < b.start
    \/ /\ a.start = b.start
       /\ \/ a.end < b.end
          \/ /\ a.end = b.end
             /\ \/ a.weight < b.weight
                \/ a.weight = b.weight /\ a.bitrate_bps <= b.bitrate_bps

(* C18: for every permutation q of the candidate list, the selections the  *)
(* constraints built from q admit are the same sets of candidates (the     *)
(* feasible selections of q are those of the list, renumbered), and the    *)
(* objective value a run on q returns when the solver proves optimality,  *)
(* the largest objective of a feasible selection of q, is the one returned *)
(* for the list.  The lists taken are those in the order  *)
(* InOrder: every list is a permutation of one of them, so their           *)
(* permutations are all the lists.                                         *)
C18_OrderIndependent ==
    ( /\ opt_pc = "returned"
      /\ solver_status = "OPTIMAL"
      /\ \A k \in 1..(Len(candidates) - 1) : InOrder(candidates[k], candidates[k + 1]) )
    =>
    LET feasible == FeasibleSelections(candidates, max_concurrent)
    IN  \A f \in Permutations(1..Len(candidates)) :
            LET q == [k \in 1..Len(candidates) |-> candidates[f[k]]]
                feasible_q == FeasibleSelections(q, max_concurrent)
                Renumbered(y) == { f[i + 1] - 1 : i \in y }
            IN  /\ { Renumbered(y) : y \in feasible_q } = feasible
                /\ \A y \in feasible_q : ObjectiveOf(q, y) <= objective_bits
                /\ \E y \in feasible_q : ObjectiveOf(q, y) = objective_bits

\* three candidates in order of which the first and the second overlap and
\* the first and the third do not: exchanging the last two changes which
\* overlapping candidates are neighbours in the list
C18_Witness ==
    /\ opt_pc = "returned"
    /\ solver_status = "OPTIMAL"
    /\ max_concurrent = 1
    /\ Len(candidates) = 3
    /\ InOrder(candidates[1], candidates[2])
    /\ InOrder(candidates[2], candidates[3])
    /\ Overlap(candidates[1], candidates[2])
    /\ ~Overlap(candidates[1], candidates[3])
    /\ Len(selected_indices) = 2

(* C19: for a fixed candidate list and max_concurrent, every run of         *)
(* optimize_schedule in which the solver proves optimality returns the     *)
(* same selected_indices: the returned selection is the only one a run     *)
(* can return.                                                             *)
C19_DeterministicSelection ==
    (opt_pc = "returned" /\ solver_status = "OPTIMAL") =>
        \A y \in OptimalSelections(candidates, max_concurrent) :
            AscendingList(y) = selected_indices

-----------------------------------------------------------------------------
(* C20: is_visible_with_mask(elevation, azimuth, mask) is true exactly     *)
(* when elevation >= the mask entry at index i, where i is the one number  *)
(* in 0..359 that differs by a multiple of 360 from round(azimuth), the    *)
(* integer nearest to the azimuth (the even one of two equally near);      *)
(* with no mask it is true exactly when elevation >= 0.                    *)
C20_VisibleIffAboveMask ==
    vis_pc = "returned" =>
        IF mask = <<>>
        THEN visible <=> (elevation_deg >= 0)
        ELSE \E i \in 0..359 :
                /\ \E n \in -400..800, w \in -2..2 :
                      /\ \/ 10 * n - azimuth_deg \in -4..4
                         \/ 10 * n - azimuth_deg \in {-5, 5} /\ n % 2 = 0
                      /\ n = i + 360 * w
                /\ visible <=> (elevation_deg >= mask[i + 1])

\* azimuth -1.5 rounds to -2 and wraps to index 358, whose entry is 88
C20_Witness ==
    /\ vis_pc = "returned"
    /\ azimuth_deg = -15
    /\ mask # <<>>
    /\ mask[359] = 88
    /\ elevation_deg = 88
    /\ visible

(***************************************************************************)
(* The horizon mask endpoints (api/v1/endpoints/horizon.py) and the DEM    *)
(* radial scan (passes/horizon.py).  Elevation angles are whole degrees.   *)
(* A terrain gives, for each integer azimuth, the largest apparent         *)
(* elevation angle the outward march meets along that ray; it is negative  *)
(* where the ground falls away in every sample.                            *)
(***************************************************************************)
MaxStep == 2

MaxRequests == 2

Terrains ==
    { [az \in 0..359 |-> (az % 90) - 10],
      [az \in 0..359 |-> 5] }

AzimuthSteps == ((-1)..MaxStep) \cup {360}

\* One direction of the radial scan: max_el starts at 0.0 and only grows,
\* and the stored value is max(0.0, max_el).
radial_scan(dem, az) ==
    LET max_el == IF dem[az] > 0 THEN dem[az] ELSE 0
    IN  IF max_el > 0 THEN max_el ELSE 0

\* np.arange(0, 360, azimuth_step_deg, dtype=int); a zero step raises.
angles(azimuth_step_deg) ==
    IF azimuth_step_deg > 0
    THEN [k \in 1..((359 \div azimuth_step_deg) + 1) |->
              (k - 1) * azimuth_step_deg]
    ELSE <<>>

compute_horizon_mask_from_dem(dem, azimuth_step_deg) ==
    LET a == angles(azimuth_step_deg)
    IN  [idx \in 1..Len(a) |-> radial_scan(dem, a[idx])]

\* The "Normalize to 360 entries" branch of compute_mask: full[i] = v.
Normalize(elevations) ==
    IF Len(elevations) # 360
    THEN [i \in 1..360 |->
              IF i <= Len(elevations) THEN elevations[i] ELSE 0]
    ELSE elevations

\* Bodies a client can post to /save: lists of any length and sign.
SaveBodies ==
    { [k \in 1..n |-> v] : n \in {359, 360, 361}, v \in {-5, 0, 10} }

compute_mask ==
    /\ hm_count < MaxRequests
    /\ \E azimuth_step_deg \in AzimuthSteps, dem \in Terrains :
          /\ hm_req' = [kind |-> "compute",
                        azimuth_step_deg |-> azimuth_step_deg,
                        dem |-> dem]
          /\ IF azimuth_step_deg = 0
             THEN \* ZeroDivisionError in np.arange: nothing is stored
                  /\ hm_status' = 500
                  /\ hm_table' = hm_table
             ELSE /\ hm_status' = 200
                  /\ hm_table' = Append(hm_table,
                        Normalize(compute_horizon_mask_from_dem(
                                      dem, azimuth_step_deg)))
    /\ hm_count' = hm_count + 1
    /\ UNCHANGED <<optVars, reqVars, visVars, sampVars>>

save_mask ==
    /\ hm_count < MaxRequests
    /\ \E elevations_deg \in SaveBodies :
          /\ hm_req' = [kind |-> "save", elevations_deg |-> elevations_deg]
          /\ IF Len(elevations_deg) # 360
             THEN \* min_items / max_items: request validation fails
                  /\ hm_status' = 422
                  /\ hm_table' = hm_table
             ELSE /\ hm_status' = 200
                  /\ hm_table' = Append(hm_table, elevations_deg)
    /\ hm_count' = hm_count + 1
    /\ UNCHANGED <<optVars, reqVars, visVars, sampVars>>

InitHorizon ==
    /\ IdleOptimizer
    /\ IdleRequest
    /\ IdleVisibility
    /\ IdleHorizon
    /\ IdleSampled

NextHorizon == compute_mask \/ save_mask

SpecHorizon == InitHorizon /\ [][NextHorizon]_vars

(***************************************************************************)
(* C21.  After any sequence of mask compute and mask save requests, every  *)
(* stored horizon mask has exactly 360 elevation values and every value    *)
(* is at least 0.                                                          *)
(* The save endpoint checks the length of the list it is given and not     *)
(* the sign of its values, so a posted list of 360 negative elevations is  *)
(* stored as it is.                                                        *)
(***************************************************************************)
C21_StoredMasksWellFormed ==
    \A k \in 1..Len(hm_table) :
        /\ Len(hm_table[k]) = 360
        /\ \A i \in 1..360 : hm_table[k][i] >= 0


(***************************************************************************)
(* C28.  For every azimuth_step_deg the mask compute endpoint accepts,     *)
(* the 360-entry mask it stores holds at index a the horizon elevation     *)
(* computed for azimuth a degrees, and 0 for azimuths not computed.        *)
(* With a step of 2 the scan yields 180 values, for azimuths 0, 2, 4, ..., *)
(* and the normalisation copies value number i to index i, so index a      *)
(* holds the elevation of azimuth 2a and the upper half is 0.              *)
(***************************************************************************)
C28_MaskIndexedByAzimuth ==
    (hm_req.kind = "compute" /\ hm_status = 200) =>
        LET stored == hm_table[Len(hm_table)]
            s == hm_req.azimuth_step_deg
        IN  \A a \in 0..359 :
                stored[a + 1] =
                    IF s > 0 /\ a % s = 0
                    THEN radial_scan(hm_req.dem, a)
                    ELSE 0


(***************************************************************************)
(* C22.  Every pass-collection loop (get_passes, export_ics and the        *)
(* per-satellite loop of create_schedule) terminates for every elevation   *)
(* profile and every availability list: each iteration either leaves the   *)
(* loop or moves the search cursor strictly forward.  Leaving the loop of  *)
(* one satellite in create_schedule is moving on to the next satellite or  *)
(* leaving the collection altogether.  The cursor is bounded by the end of *)
(* the horizon and the satellites are finitely many, so a run in which     *)
(* every iteration does one of the two is finite.                          *)
(***************************************************************************)
C22_LoopsProgress ==
    [][ pc = "loop" =>
           \/ pc' # "loop"
           \/ sat_pos' > sat_pos
           \/ current_time' > current_time ]_vars

C22_Witness ==
    /\ pc = "done"
    /\ req.endpoint = "schedule"
    /\ req.availability # <<>>
    /\ Len(sats) > 1
    /\ sat_pos = Len(sats)
    /\ finder.called
    /\ finder.scan.hit


(***************************************************************************)
(* C23.  A request deadline is propagated to the work in flight: once the  *)
(* deadline expires a running pass search takes no further propagation     *)
(* samples, and the optimizer runs with a time budget no larger than the   *)
(* time remaining until the deadline.                                      *)
(* Stated on what the work in flight is given: the request carries a       *)
(* deadline, every call of the pass finder receives it, and the budget the *)
(* optimizer is started with does not exceed it.  No request of the code   *)
(* has a deadline, find_next_pass has no such parameter, and the budget is *)
(* the fixed max_time_in_seconds.                                          *)
(***************************************************************************)
C23_DeadlinePropagated ==
    req.endpoint # "none" =>
        /\ "deadline" \in DOMAIN req
        /\ finder.called => "deadline" \in DOMAIN finder
        /\ opt_pc = "call" => max_time_in_seconds <= req.deadline


(***************************************************************************)
(* C26.  The objective value returned by optimize_schedule equals the sum  *)
(* of the values (area = duration_s x bitrate_bps x weight) of exactly the *)
(* candidates listed in selected_indices, and selected_indices are         *)
(* distinct valid indices into the caller's candidate list.  Areas are     *)
(* numerators over WeightDen, so the returned objective is scaled by       *)
(* WeightDen before the comparison.                                        *)
(***************************************************************************)
C26_ObjectiveIsSelectedValue ==
    opt_pc = "returned" =>
        /\ \A k \in 1..Len(selected_indices) :
               selected_indices[k] \in Indices(candidates)
        /\ \A k, l \in 1..Len(selected_indices) :
               k # l => selected_indices[k] # selected_indices[l]
        /\ objective_bits * WeightDen =
               SumOver(Range(selected_indices),
                       [i \in Indices(candidates) |-> area(candidates[i + 1])])


(***************************************************************************)
(* C29.  For every list of candidates with start < end, the pairwise       *)
(* mutual-exclusion constraints optimize_schedule builds for               *)
(* max_concurrent = 1 admit exactly the selections the breakpoint          *)
(* constraints of the other branch would admit with capacity 1.            *)
(***************************************************************************)
C29_PairwiseEqualsBreakpoints ==
    (opt_pc = "returned" /\ max_concurrent = 1) =>
        LET pairwise == PairwiseConstraints(candidates)
            breakpoints == BreakpointConstraints(candidates, 1)
        IN  \A x \in SUBSET Indices(candidates) :
                Satisfies(x, pairwise) <=> Satisfies(x, breakpoints)

C29_Witness ==
    /\ opt_pc = "returned"
    /\ max_concurrent = 1
    /\ Len(candidates) = 3
    /\ Overlap(candidates[1], candidates[3])
    /\ \E i, j \in 1..3 : candidates[i].end = candidates[j].start
    /\ \E i, j \in 1..3 :
          /\ Overlap(candidates[i], candidates[j])
          /\ candidates[i].end < candidates[j].end


(***************************************************************************)
(* The sampled pass finder compute_passes (backend/passes.py).  The        *)
(* satellite is propagated at start, start + step, ... up to end; the call *)
(* is given here by the elevation met at each of those samples, PropFail   *)
(* standing for a sample at which SGP4 reports an error.                   *)
(***************************************************************************)
MaxSamples == 4

SampleElevations == {5, 10, 15}

StepSeconds == {1, 10}

\* to_iso: strftime("%Y-%m-%dT%H:%M:%SZ") drops the fraction of a second;
\* the text is represented by the whole second it names.
to_iso(d) == d \div TicksPerSec

\* times[i], 0-based: t = start; t += step
SampleTime(i) == start + i * step

\* max(range(len(eseg)), key=...): the first index of the largest value
MaxIndex(eseg) ==
    CHOOSE k \in 1..Len(eseg) :
        /\ \A j \in 1..Len(eseg) : eseg[j] <= eseg[k]
        /\ \A j \in 1..(k - 1) : eseg[j] < eseg[k]

\* i0 and i1 are 0-based and the slices [i0:i1 + 1] include both
_build_pass(i0, i1) ==
    LET tseg == [k \in 1..(i1 - i0 + 1) |-> SampleTime(i0 + k - 1)]
        eseg == [k \in 1..(i1 - i0 + 1) |-> elevs[i0 + k]]
        max_idx == MaxIndex(eseg)
    IN  [aos_utc |-> to_iso(tseg[1]),
         los_utc |-> to_iso(tseg[Len(tseg)]),
         max_elev_deg |-> eseg[max_idx],
         max_elev_time_utc |-> to_iso(tseg[max_idx]),
         samples |-> [k \in 1..Len(tseg) |->
                         [t |-> to_iso(tseg[k]), elev_deg |-> eseg[k]]]]

\* The for loop over the samples from index i on, and the trailing
\* "if in_pass" once the samples are used up.
RECURSIVE identify_passes(_, _, _, _)
identify_passes(i, in_pass, pass_start_idx, acc) ==
    IF i >= Len(elevs)
    THEN IF in_pass
         THEN Append(acc, _build_pass(pass_start_idx, Len(elevs) - 1))
         ELSE acc
    ELSE LET above == elevs[i + 1] >= mask_deg
         IN  IF above /\ ~in_pass
             THEN identify_passes(i + 1, TRUE, i, acc)
             ELSE IF ~above /\ in_pass
             THEN identify_passes(i + 1, FALSE, pass_start_idx,
                                  Append(acc, _build_pass(pass_start_idx, i)))
             ELSE identify_passes(i + 1, in_pass, pass_start_idx, acc)

compute_passes ==
    /\ samp_pc = "call"
    /\ IF \E i \in 1..Len(elevs) : elevs[i] = PropFail
       THEN \* _propagate_teme_km raises ValueError while sampling
            /\ samp_pc' = "raised"
            /\ samp_passes' = <<>>
       ELSE /\ samp_pc' = "returned"
            /\ samp_passes' = identify_passes(0, FALSE, 0, <<>>)
    /\ UNCHANGED <<start, step, elevs, mask_deg, optVars, reqVars, visVars,
                   hmVars>>

InitSampled ==
    /\ IdleOptimizer
    /\ IdleRequest
    /\ IdleVisibility
    /\ IdleHorizon
    /\ start \in {0, TicksPerSec \div 2}
    /\ step \in { Sec(k) : k \in StepSeconds }
    /\ elevs \in UNION { [1..n -> SampleElevations \cup {PropFail}] :
                           n \in 1..MaxSamples }
    /\ mask_deg = 10
    /\ samp_pc = "call"
    /\ samp_passes = <<>>

NextSampled == compute_passes

SpecSampled == InitSampled /\ [][NextSampled]_vars

(***************************************************************************)
(* C30.  In compute_passes every returned pass is a run of consecutive     *)
(* samples that all have elevation >= mask_deg, running from its first     *)
(* such sample (AOS) to its last such sample (LOS); returned passes are in *)
(* time order and share no sample.                                         *)
(* A pass that ends inside the sampled span is closed at the first sample  *)
(* below the mask and the slice includes that sample, so its last sample   *)
(* and its LOS lie below the mask.                                         *)
(***************************************************************************)
C30_PassIsAboveMaskRun ==
    samp_pc = "returned" =>
        /\ \A k \in 1..Len(samp_passes) :
              \E i0, i1 \in 0..(Len(elevs) - 1) :
                 /\ i0 <= i1
                 /\ \A i \in i0..i1 : elevs[i + 1] >= mask_deg
                 /\ i0 = 0 \/ elevs[i0] < mask_deg
                 /\ i1 = Len(elevs) - 1 \/ elevs[i1 + 2] < mask_deg
                 /\ samp_passes[k].aos_utc = to_iso(SampleTime(i0))
                 /\ samp_passes[k].los_utc = to_iso(SampleTime(i1))
                 /\ samp_passes[k].samples =
                       [j \in 1..(i1 - i0 + 1) |->
                           [t |-> to_iso(SampleTime(i0 + j - 1)),
                            elev_deg |-> elevs[i0 + j]]]
        /\ \A k \in 1..(Len(samp_passes) - 1) :
              samp_passes[k].los_utc < samp_passes[k + 1].aos_utc

====
